---- MODULE Spec2Model ----
(***************************************************************************)
(* A model of sparques/irtrx: the four pulse-pair decoders (cheapo,        *)
(* samsung, hexbug, ppm), the two frame marshallers, the RxDevice that     *)
(* measures pulse pairs, and the fan-out multiRxStateMachine.              *)
(*                                                                         *)
(* Durations are integers counted in microseconds.  A TimePair is the      *)
(* tuple <<pair[0], pair[1]>>, i.e. p[1] is Go's pair[0] ("on") and p[2]   *)
(* is Go's pair[1] ("off").                                                *)
(***************************************************************************)
EXTENDS Integers, Sequences, FiniteSets, TLC

VARIABLES
    stateMachine,   \* RxDevice.stateMachine: which decoder the device drives
    cheapo,         \* cheapo.StateMachine       {buf, bitcount}
    samsung,        \* samsung.StateMachine      {buf, bitcount}
    hexbug,         \* hexbug.StateMachine       {rcvbuf, bitcount, parity}
    ppm,            \* ppm.StateMachine          {channels, safeChannels, Timeout, currentCh, last}
    now,            \* the wall clock read by time.Now() / time.Since()
    pair,           \* the TimePair given to the last HandleTimePair call
    out,            \* the callback invocations made by the last HandleTimePair call
    fed,            \* history: bit pulses fed since the last frame boundary
    npulses,        \* history: HandleTimePair calls since the last start marker
    ncb,            \* history: callback invocations since the last start marker
    pre,            \* history: the decoder's state when the last call began
    sync,           \* history: <<the clock at the last synchronization marker fed>> (ppm)
    tx,             \* a round trip: the command, MarshalFrame's result, the pairs handed over
    delivered,      \* history: every callback invocation of the round trip
    multi,          \* multiRxStateMachine and the position of its HandleTimePair loop
    um              \* a call f.UnmarshalFrame(buf): the frame pointer, buf, the error returned

decVars == <<cheapo, samsung, hexbug, ppm>>
histVars == <<pair, out, fed, npulses, ncb, pre, sync>>
txVars == <<tx, delivered>>
vars == <<stateMachine, decVars, now, histVars, txVars, multi, um>>

(***************************************************************************)
(* Units and integer helpers                                               *)
(***************************************************************************)
Microsecond == 1
Millisecond == 1000 * Microsecond

Pow2(n) == 2 ^ n

\* (x >> n) & 1
Bit(x, n) == (x \div Pow2(n)) % 2

\* 1 << n evaluated at type uint32: a shift count of 32 or more gives 0
Shl1U32(n) == IF n < 32 THEN Pow2(n) ELSE 0

\* x | m for a mask m that is 0 or a single bit 1 << n
OrMask(x, m, n) == IF m = 0 \/ Bit(x, n) = 1 THEN x ELSE x + m

\* the value whose bit i-1 is s[i] (LSB first)
RECURSIVE BitsValue(_)
BitsValue(s) == IF s = <<>> THEN 0 ELSE Head(s) + 2 * BitsValue(Tail(s))

(***************************************************************************)
(* package cheapo                                                          *)
(***************************************************************************)
CheapoWidth == 10

CheapoNew == [buf |-> 0, bitcount |-> 0]

CheapoIsStart(on) == on > 7 * Millisecond

CheapoIsOne_ge(off) == off >= Millisecond
CheapoIsOne(off) == off > Millisecond

CheapoIsZero(off) == off < Millisecond

\* the switch of HandleTimePair: the state after it, before the width test
CheapoSwitch(c, p) ==
    IF CheapoIsStart(p[1]) THEN CheapoNew
    ELSE IF CheapoIsOne(p[2])
         THEN [buf |-> OrMask(c.buf, Shl1U32(c.bitcount), c.bitcount),
               bitcount |-> c.bitcount + 1]
    ELSE IF CheapoIsZero(p[2]) THEN [c EXCEPT !.bitcount = @ + 1]
    ELSE c

CheapoDelivers(c) == ~(c.bitcount < CheapoWidth)

\* HandleTimePair: [sm |-> the state after the call, cb |-> the callback invocations]
CheapoHandleTimePair(c, p) ==
    LET c1 == CheapoSwitch(c, p)
    IN  IF CheapoIsStart(p[1]) THEN [sm |-> c1, cb |-> <<>>]
        ELSE [sm |-> c1, cb |-> IF CheapoDelivers(c1) THEN <<c1.buf>> ELSE <<>>]

(***************************************************************************)
(* package hexbug                                                          *)
(***************************************************************************)
HexbugWidth == 9

HexbugNew == [rcvbuf |-> 0, bitcount |-> 0, parity |-> FALSE]

HexbugIsStart(off) == off > 1600 * Microsecond

HexbugIsOne(off) == off > 750 * Microsecond

\* the accumulation step: set the bit, toggle the parity, count the bit
HexbugShift(hb, off) ==
    [rcvbuf   |-> IF HexbugIsOne(off)
                  THEN OrMask(hb.rcvbuf, Pow2(hb.bitcount), hb.bitcount)
                  ELSE hb.rcvbuf,
     bitcount |-> hb.bitcount + 1,
     parity   |-> IF HexbugIsOne(off) THEN ~hb.parity ELSE hb.parity]

HexbugDelivered_masked(hb) == hb.rcvbuf % 256
HexbugDelivered(hb) == hb.rcvbuf

HexbugVerify_even(hb) == ~hb.parity
HexbugVerify(hb) == hb.parity

\* the state left behind once the 9th bit has been handled
HexbugAfterFrame_kept(h1) == [h1 EXCEPT !.bitcount = 0]
HexbugAfterFrame(h1) == [rcvbuf |-> 0, bitcount |-> 0, parity |-> FALSE]

HexbugHandleTimePair(hb, p) ==
    IF HexbugIsStart(p[2]) THEN [sm |-> HexbugNew, cb |-> <<>>]
    ELSE LET h1 == HexbugShift(hb, p[2])
         IN  IF h1.bitcount = HexbugWidth
             THEN [sm |-> HexbugAfterFrame(h1),
                   cb |-> IF HexbugVerify(h1) THEN <<HexbugDelivered(h1)>> ELSE <<>>]
             ELSE [sm |-> h1, cb |-> <<>>]

(***************************************************************************)
(* package samsung.  The uint32 accumulator is kept as the set of its set  *)
(* bit positions (a subset of 0..31), so that all 32 bits are represented. *)
(***************************************************************************)
SamsungWidth == 32

U32Bits == 0 .. 31

\* buf | (1 << n) at type uint32: a shift count of 32 or more contributes nothing
U32SetBit(buf, n) == IF n \in U32Bits THEN buf \cup {n} ELSE buf

\* the value of the 16 bits of buf starting at bit position base
RECURSIVE U32Field(_, _, _)
U32Field(buf, base, w) ==
    IF w = 0 THEN 0
    ELSE (IF base \in buf THEN 1 ELSE 0) + 2 * U32Field(buf, base + 1, w - 1)

SamsungNew == [buf |-> {}, bitcount |-> 0]

\* a *Frame is <<>> when nil and <<the Frame it points to>> otherwise
NilFrame == <<>>

\* var f Frame
ZeroFrame == [Addr |-> 0, Cmd |-> 0]

\* the error values: nil and ErrFrameAlloc
NilError == "nil"
ErrFrameAlloc == "tried to unmarshal to unallocated frame"

FrameIsNil_never(f) == FALSE
FrameIsNil(f) == f = NilFrame

\* the two assignments of UnmarshalFrame
UnmarshalFields(buf) == [Addr |-> U32Field(buf, 0, 16), Cmd |-> U32Field(buf, 16, 16)]

\* Frame.UnmarshalFrame: [f |-> the pointer's target after the call, err |-> the error returned]
UnmarshalFrame(f, buf) ==
    IF FrameIsNil(f) THEN [f |-> f, err |-> ErrFrameAlloc]
    ELSE [f |-> <<UnmarshalFields(buf)>>, err |-> NilError]

SamsungIsRepeat_never(on) == FALSE
SamsungIsRepeat(on) == on > 200 * Millisecond

SamsungIsStartBand(off) == off > 3 * Millisecond

SamsungIsStartOn_ge(on) == on >= 3 * Millisecond
SamsungIsStartOn(on) == on > 3 * Millisecond

SamsungIsOne_ge(on) == on >= Millisecond
SamsungIsOne(on) == on > Millisecond

SamsungShift(sm, on) ==
    [buf      |-> IF SamsungIsOne(on) THEN U32SetBit(sm.buf, sm.bitcount) ELSE sm.buf,
     bitcount |-> sm.bitcount + 1]

SamsungHandleTimePair(sm, p) ==
    IF SamsungIsRepeat(p[1]) THEN [sm |-> sm, cb |-> <<>>]
    ELSE IF SamsungIsStartBand(p[2])
         THEN [sm |-> IF SamsungIsStartOn(p[1]) THEN SamsungNew ELSE sm, cb |-> <<>>]
    ELSE LET s1 == SamsungShift(sm, p[1])
         IN  [sm |-> s1,
              cb |-> IF s1.bitcount # SamsungWidth THEN <<>>
                     ELSE UnmarshalFrame(<<ZeroFrame>>, s1.buf).f]

(***************************************************************************)
(* package ppm (the StateMachine revision, with the IsZero guard)          *)
(***************************************************************************)
NumChannels == 16

Channels == 0 .. NumChannels - 1

minimumTimeBetweenFrames == 6 * Millisecond

SafeChannelsMid == [i \in Channels |-> 1500 * Microsecond]

SafeChannelsBottom == [i \in Channels |-> 1000 * Microsecond]

\* the zero time.Time, the value of last before any marker
ZeroTime == 0

PPMNew ==
    [channels     |-> SafeChannelsMid,
     safeChannels |-> SafeChannelsMid,
     Timeout      |-> 100 * minimumTimeBetweenFrames,
     currentCh    |-> 0,
     last         |-> ZeroTime]

\* Duration.Round(m) for d >= 0: to the nearest multiple of m, halfway values up
Round_down(d, m) == d - (d % m)
Round(d, m) == LET r == d % m IN IF r + r < m THEN d - r ELSE d + m - r

PPMIsMarker(on) == on > minimumTimeBetweenFrames

PPMNeverSynced_unguarded(sm) == FALSE
PPMNeverSynced(sm) == sm.last = ZeroTime

PPMIsFull_gt(sm) == sm.currentCh > NumChannels
PPMIsFull(sm) == sm.currentCh >= NumChannels

PPMStore(sm, p) ==
    [sm EXCEPT !.channels[sm.currentCh] = Round(p[1] + p[2], 10 * Microsecond),
               !.currentCh = @ + 1]

PPMMark_cleared(sm, t) == [sm EXCEPT !.last = t, !.currentCh = 0, !.channels = sm.safeChannels]
PPMMark(sm, t) == [sm EXCEPT !.last = t, !.currentCh = 0]

\* HandleTimePair called when the clock reads t
PPMHandleTimePair(sm, p, t) ==
    IF PPMIsMarker(p[1]) THEN PPMMark(sm, t)
    ELSE IF PPMNeverSynced(sm) THEN sm
    ELSE IF PPMIsFull(sm) THEN sm
    ELSE PPMStore(sm, p)

SetSafeChannels(sm, sc) == [sm EXCEPT !.safeChannels = sc]

\* time.Since(sm.last) > sm.Timeout when the clock reads t.  time.Since of the
\* zero Time saturates at the largest Duration, above every Timeout modelled.
IsSafe_ge(sm, t) == sm.last = ZeroTime \/ t - sm.last >= sm.Timeout
IsSafe(sm, t) == sm.last = ZeroTime \/ t - sm.last > sm.Timeout

Channel(sm, ch, t) == IF IsSafe(sm, t) THEN sm.safeChannels[ch] ELSE sm.channels[ch]

ChannelsOf_stored(sm, t) == sm.channels
ChannelsOf(sm, t) == IF IsSafe(sm, t) THEN sm.safeChannels ELSE sm.channels

(***************************************************************************)
(* The receiver: an RxDevice drives one decoder, calling HandleTimePair    *)
(* once per measured pulse pair.  The pairs are drawn from sets that hold, *)
(* for every threshold of the decoder, a duration below it, the threshold  *)
(* itself and a duration above it.                                         *)
(***************************************************************************)
Decoders == {"cheapo", "samsung", "hexbug", "ppm"}

\* pulses fed after a start marker before the next one (cheapo)
MaxCheapoPulses == 12
\* bits accumulated after a start of frame (samsung)
MaxSamsungBits == 34
\* one-bits are fed at bit positions below this one, and at the ends of the
\* two 16-bit halves (samsung)
MaxSamsungLow == 1
\* clock ticks
MaxTicks == 4
\* values other than the initial one are fed for the channels below this one, and
\* for the last channel and beyond (ppm)
MaxVaried == 1

CheapoPairs ==
    {<<on, off>> : on \in {560 * Microsecond, 7 * Millisecond},
                   off \in {500 * Microsecond, Millisecond, 1500 * Microsecond}}
    \cup {<<9 * Millisecond, 4500 * Microsecond>>}

HexbugPairs ==
    {<<350 * Microsecond, off>> :
        off \in {350 * Microsecond, 750 * Microsecond, 1000 * Microsecond,
                 1600 * Microsecond, 1750 * Microsecond}}

SamsungPairs ==
    {<<4500 * Microsecond, 4500 * Microsecond>>,   \* start of frame
     <<6 * Millisecond, 3 * Millisecond>>,         \* off at the start threshold
     <<3 * Millisecond, 4500 * Microsecond>>,      \* on at the start threshold
     <<562 * Microsecond, 4500 * Microsecond>>,    \* start band, short on
     <<4500 * Microsecond, 250 * Millisecond>>,    \* very long off, long on
     <<250 * Millisecond, 562 * Microsecond>>,     \* very long on
     <<250 * Millisecond, 4500 * Microsecond>>,    \* very long on, off in the start band
     <<200 * Millisecond, 562 * Microsecond>>,     \* on at the threshold of the ignored band
     <<562 * Microsecond, 562 * Microsecond>>,
     <<562 * Microsecond, 1687 * Microsecond>>,
     <<Millisecond, 562 * Microsecond>>,           \* on at the bit threshold
     <<1687 * Microsecond, 562 * Microsecond>>}

PPMPairs ==
    {<<7 * Millisecond, 500 * Microsecond>>,       \* synchronization marker
     <<6 * Millisecond, 500 * Microsecond>>,       \* on at the marker threshold
     <<1000 * Microsecond, 500 * Microsecond>>,    \* 1500, the initial value
     <<1000 * Microsecond, 504 * Microsecond>>,    \* rounds down to 1500
     <<1000 * Microsecond, 505 * Microsecond>>}    \* rounds up to 1510

TickStep == 300 * Millisecond

\* the bit a pulse stands for, by the protocol table: "none" when it is no bit pulse
CheapoClass(p) ==
    IF p[1] > 7 * Millisecond THEN "start"
    ELSE IF p[2] > Millisecond THEN "one"
    ELSE IF p[2] < Millisecond THEN "zero"
    ELSE "none"

HexbugClass(p) ==
    IF p[2] > 1600 * Microsecond THEN "start"
    ELSE IF p[2] > 750 * Microsecond THEN "one"
    ELSE "zero"

SamsungClass(p) ==
    IF p[1] > 200 * Millisecond THEN "none"
    ELSE IF p[2] > 3 * Millisecond
    THEN (IF p[1] > 3 * Millisecond THEN "start" ELSE "none")
    ELSE IF p[1] > Millisecond THEN "one"
    ELSE "zero"

\* the history of bit pulses after a pulse of class c; a frame of full width
\* restarts the history when the decoder restarts by itself (hexbug)
FedAfter(c, width, restarts) ==
    CASE c = "start" -> <<>>
      [] c = "none"  -> fed
      [] OTHER       -> LET b == IF c = "one" THEN 1 ELSE 0
                        IN  IF restarts /\ Len(fed) >= width THEN <<b>> ELSE Append(fed, b)

\* no marker fed yet
Never == <<>>

\* the variables of the round trip and of the dispatcher when neither is in use
NoTx == [frame |-> <<>>, pairs |-> <<>>, sent |-> 0]
NoMulti ==
    [mrsm |-> <<>>, i |-> 0, pc |-> "idle", calls |-> <<>>, done |-> <<>>, n |-> 0,
     alone |-> <<>>, prev |-> <<>>]
NoCall == [f |-> NilFrame, buf |-> {}, dst |-> NilFrame, err |-> NilError, called |-> FALSE]

\* a HandleTimePair call has been made
Called == pre # <<>>

Init ==
    /\ stateMachine \in Decoders
    /\ cheapo = CheapoNew
    /\ samsung = SamsungNew
    /\ hexbug = HexbugNew
    /\ ppm = PPMNew
    /\ now = TickStep
    /\ pair = <<0, 0>>
    /\ out = <<>>
    /\ fed = <<>>
    /\ npulses = 0
    /\ ncb = 0
    /\ pre = <<>>
    /\ sync = Never
    /\ tx = NoTx
    /\ delivered = <<>>
    /\ multi = NoMulti
    /\ um = NoCall

\* the history variables after feeding p, of class c, with result r
Observe(p, r, before, c, width, restarts, counted) ==
    LET fresh == c = "start" \/ (restarts /\ Len(fed) >= width /\ c # "none")
    IN  /\ pair' = p
        /\ out' = r.cb
        /\ pre' = before
        /\ fed' = FedAfter(c, width, restarts)
        /\ sync' = sync
        /\ npulses' = IF c = "start" \/ ~counted THEN 0
                      ELSE IF fresh THEN 1 ELSE npulses + 1
        /\ ncb' = IF c = "start" THEN 0
                  ELSE IF fresh THEN Len(r.cb) ELSE ncb + Len(r.cb)

FeedCheapo ==
    /\ stateMachine = "cheapo"
    /\ \E p \in CheapoPairs :
        /\ CheapoClass(p) # "start" => npulses < MaxCheapoPulses
        /\ LET r == CheapoHandleTimePair(cheapo, p)
           IN  /\ cheapo' = r.sm
               /\ Observe(p, r, cheapo, CheapoClass(p), CheapoWidth, FALSE, TRUE)
    /\ UNCHANGED <<stateMachine, um, samsung, hexbug, ppm, now, txVars, multi>>

FeedHexbug ==
    /\ stateMachine = "hexbug"
    /\ \E p \in HexbugPairs :
        LET r == HexbugHandleTimePair(hexbug, p)
        IN  /\ hexbug' = r.sm
            /\ Observe(p, r, hexbug, HexbugClass(p), HexbugWidth, TRUE, TRUE)
    /\ UNCHANGED <<stateMachine, um, cheapo, samsung, ppm, now, txVars, multi>>

FeedSamsung ==
    /\ stateMachine = "samsung"
    /\ \E p \in SamsungPairs :
        /\ SamsungClass(p) \in {"one", "zero"} => samsung.bitcount < MaxSamsungBits
        /\ SamsungClass(p) = "one" =>
              (samsung.bitcount < MaxSamsungLow \/ samsung.bitcount \in {15, 16, 31, 32})
        /\ LET r == SamsungHandleTimePair(samsung, p)
           IN  /\ samsung' = r.sm
               /\ Observe(p, r, samsung, SamsungClass(p), SamsungWidth, FALSE, FALSE)
    /\ UNCHANGED <<stateMachine, um, cheapo, hexbug, ppm, now, txVars, multi>>

FeedPPM ==
    /\ stateMachine = "ppm"
    /\ \E p \in PPMPairs :
        /\ (~PPMIsMarker(p[1]) /\ Round(p[1] + p[2], 10 * Microsecond) # SafeChannelsMid[0])
              => (ppm.currentCh < MaxVaried \/ ppm.currentCh >= NumChannels - 1)
        /\ ppm' = PPMHandleTimePair(ppm, p, now)
        /\ pair' = p
        /\ pre' = ppm
        /\ sync' = IF p[1] > 6 * Millisecond THEN <<now>> ELSE sync
    /\ UNCHANGED <<stateMachine, um, cheapo, samsung, hexbug, now, out, fed, npulses, ncb, txVars, multi>>

\* the user installs another safe array
CallSetSafeChannels ==
    /\ stateMachine = "ppm"
    /\ \E sc \in {SafeChannelsMid, SafeChannelsBottom} :
        /\ sc # ppm.safeChannels
        /\ ppm' = SetSafeChannels(ppm, sc)
    /\ UNCHANGED <<stateMachine, um, cheapo, samsung, hexbug, now, histVars, txVars, multi>>

\* time passes between two calls
Tick ==
    /\ stateMachine = "ppm"
    /\ now < MaxTicks * TickStep
    /\ now' = now + TickStep
    /\ UNCHANGED <<stateMachine, um, decVars, histVars, txVars, multi>>

Next == FeedCheapo \/ FeedHexbug \/ FeedSamsung \/ FeedPPM \/ CallSetSafeChannels \/ Tick

Spec == Init /\ [][Next]_vars

(***************************************************************************)
(* The frame marshallers                                                   *)
(***************************************************************************)
StartPair == <<6 * Millisecond, 3 * Millisecond>>
ZeroPair == <<562 * Microsecond, 1687 * Microsecond>>
OnePair == <<562 * Microsecond, 562 * Microsecond>>

\* uint32(f.Cmd)<<16 | uint32(f.Addr), as the set of its set bits
FrameWord_swapped(f) ==
    {i \in 0 .. 15 : Bit(f.Cmd, i) = 1} \cup {i + 16 : i \in {j \in 0 .. 15 : Bit(f.Addr, j) = 1}}
FrameWord(f) ==
    {i + 16 : i \in {j \in 0 .. 15 : Bit(f.Cmd, j) = 1}} \cup {i \in 0 .. 15 : Bit(f.Addr, i) = 1}

\* samsung Frame.MarshalFrame: out[0] is element 1 of the sequence
MarshalFrame(f) ==
    LET buf == FrameWord(f)
    IN  [k \in 1 .. 34 |->
            IF k = 1 THEN StartPair
            ELSE IF k = 34 THEN ZeroPair
            ELSE IF (k - 2) \in buf THEN OnePair ELSE ZeroPair]

hbStart == <<1750 * Microsecond, 350 * Microsecond>>
hbZero == <<350 * Microsecond, 350 * Microsecond>>
hbOne == <<1000 * Microsecond, 350 * Microsecond>>

\* the loop of hexbug Cmd.MarshalFrame from index i: c is an int16, c&1 is
\* c % 2 and c >>= 1 is the floor of c / 2
\* c&1 == 1
CmdBitIsOne_inverted(c) == c % 2 = 0
CmdBitIsOne(c) == c % 2 = 1

RECURSIVE CmdMarshalLoop(_, _, _, _)
CmdMarshalLoop(c, i, parity, o) ==
    IF i >= 9 THEN [out |-> o, parity |-> parity]
    ELSE IF CmdBitIsOne(c)
         THEN CmdMarshalLoop(c \div 2, i + 1, ~parity, Append(o, hbOne))
         ELSE CmdMarshalLoop(c \div 2, i + 1, parity, Append(o, hbZero))

CmdParityStart == TRUE

\* hexbug Cmd.MarshalFrame
CmdMarshalFrame(c) ==
    LET r == CmdMarshalLoop(c, 1, CmdParityStart, <<hbStart>>)
    IN  Append(r.out, IF r.parity THEN hbOne ELSE hbZero)

(***************************************************************************)
(* A round trip.  A command is marshalled by the marshaller of a decoder,  *)
(* and the pairs MarshalFrame returns are handed, as they are and in       *)
(* order, to HandleTimePair of a decoder fresh from NewStateMachine.       *)
(***************************************************************************)
SampleWords == {0, 1, 4660, 22136, 32768, 65535}

SamsungFrames == [Addr : SampleWords, Cmd : SampleWords]

HexbugCmds == (0 .. 255) \cup {256, 421, 32767, -1, -256, -32768}

\* fm.MarshalFrame() of the decoder's own marshaller
Marshal(f) == IF stateMachine = "samsung" THEN MarshalFrame(f) ELSE CmdMarshalFrame(f)

InitTx ==
    /\ stateMachine \in {"samsung", "hexbug"}
    /\ cheapo = CheapoNew
    /\ samsung = SamsungNew
    /\ hexbug = HexbugNew
    /\ ppm = PPMNew
    /\ now = TickStep
    /\ pair = <<0, 0>>
    /\ out = <<>>
    /\ fed = <<>>
    /\ npulses = 0
    /\ ncb = 0
    /\ pre = <<>>
    /\ sync = Never
    /\ \E f \in IF stateMachine = "samsung" THEN SamsungFrames ELSE HexbugCmds :
          tx = [frame |-> f, pairs |-> Marshal(f), sent |-> 0]
    /\ delivered = <<>>
    /\ multi = NoMulti
    /\ um = NoCall

\* sm.HandleTimePair(p)
Deliver(p) ==
    LET r == IF stateMachine = "samsung" THEN SamsungHandleTimePair(samsung, p)
             ELSE HexbugHandleTimePair(hexbug, p)
    IN  /\ samsung' = IF stateMachine = "samsung" THEN r.sm ELSE samsung
        /\ hexbug' = IF stateMachine = "hexbug" THEN r.sm ELSE hexbug
        /\ pre' = IF stateMachine = "samsung" THEN samsung ELSE hexbug
        /\ pair' = p
        /\ out' = r.cb
        /\ delivered' = delivered \o r.cb
        /\ UNCHANGED <<cheapo, ppm, fed, npulses, ncb, sync>>

\* the next pair is handed to HandleTimePair
SendDirect ==
    /\ tx.sent < Len(tx.pairs)
    /\ Deliver(tx.pairs[tx.sent + 1])
    /\ tx' = [tx EXCEPT !.sent = @ + 1]
    /\ UNCHANGED <<stateMachine, um, now, multi>>

NextTx == SendDirect

SpecTx == InitTx /\ [][NextTx]_vars

(***************************************************************************)
(* A direct call of Frame.UnmarshalFrame: the receiver is nil or points to *)
(* a Frame with earlier contents, buf is any of the sample 32-bit words.   *)
(***************************************************************************)
\* the raw values handed to UnmarshalFrame, as sets of set bits
RawWords == {FrameWord(f) : f \in SamsungFrames}

\* the receivers: nil, a zero Frame, a Frame decoded earlier
FramePointers == {NilFrame, <<ZeroFrame>>, <<[Addr |-> 65535, Cmd |-> 4660]>>}

InitUnmarshal ==
    /\ stateMachine = "samsung"
    /\ cheapo = CheapoNew
    /\ samsung = SamsungNew
    /\ hexbug = HexbugNew
    /\ ppm = PPMNew
    /\ now = TickStep
    /\ pair = <<0, 0>>
    /\ out = <<>>
    /\ fed = <<>>
    /\ npulses = 0
    /\ ncb = 0
    /\ pre = <<>>
    /\ sync = Never
    /\ tx = NoTx
    /\ delivered = <<>>
    /\ multi = NoMulti
    /\ \E f \in FramePointers : \E buf \in RawWords :
          um = [f |-> f, buf |-> buf, dst |-> f, err |-> NilError, called |-> FALSE]

\* err := f.UnmarshalFrame(buf)
CallUnmarshalFrame ==
    /\ ~um.called
    /\ LET r == UnmarshalFrame(um.f, um.buf)
       IN  um' = [um EXCEPT !.f = r.f, !.err = r.err, !.called = TRUE]
    /\ UNCHANGED <<stateMachine, decVars, now, histVars, txVars, multi>>

NextUnmarshal == CallUnmarshalFrame

SpecUnmarshal == InitUnmarshal /\ [][NextUnmarshal]_vars

(***************************************************************************)
(* multiRxStateMachine: the fan-out dispatcher.  Its HandleTimePair is the *)
(* loop  for i := range mrsm { mrsm[i].HandleTimePair(pair) };  multi.i is *)
(* the number of members already called, multi.pc tells whether a call of  *)
(* the dispatcher is in progress.  A member is a decoder instance of its   *)
(* own: its kind, its state st and the log cbs of the invocations of its   *)
(* callback.  multi.alone holds, for every member, a decoder of the same   *)
(* kind and starting state that is fed the same pairs outside any          *)
(* dispatcher; multi.prev is multi.alone before the pair being dispatched. *)
(***************************************************************************)
\* members registered with MultiRxStateMachine(rsm...)
MaxMembers == 2
\* calls of the dispatcher's HandleTimePair
MaxDispatch == 3

MultiPairs ==
    {<<9 * Millisecond, 4500 * Microsecond>>,
     <<560 * Microsecond, 500 * Microsecond>>,
     <<560 * Microsecond, 1500 * Microsecond>>,
     <<350 * Microsecond, 1750 * Microsecond>>}

\* a freshly constructed decoder of each kind
NewMember(kind) ==
    [kind |-> kind,
     st   |-> CASE kind = "cheapo"  -> CheapoNew
                [] kind = "samsung" -> SamsungNew
                [] kind = "hexbug"  -> HexbugNew
                [] kind = "ppm"     -> PPMNew,
     cbs  |-> <<>>]

\* a decoder of each kind that is one bit short of a frame (ppm: synchronized)
LateMember(kind) ==
    [kind |-> kind,
     st   |-> CASE kind = "cheapo"  -> [buf |-> 5, bitcount |-> 9]
                [] kind = "samsung" -> [buf |-> {0}, bitcount |-> 31]
                [] kind = "hexbug"  -> [rcvbuf |-> 5, bitcount |-> 8, parity |-> FALSE]
                [] kind = "ppm"     -> [PPMNew EXCEPT !.last = TickStep],
     cbs  |-> <<>>]

\* mrsm[i].HandleTimePair(p): the dynamic call through the RxStateMachine interface
MemberHandleTimePair(m, p, t) ==
    CASE m.kind = "cheapo"  ->
            LET r == CheapoHandleTimePair(m.st, p)
            IN  [m EXCEPT !.st = r.sm, !.cbs = @ \o r.cb]
      [] m.kind = "samsung" ->
            LET r == SamsungHandleTimePair(m.st, p)
            IN  [m EXCEPT !.st = r.sm, !.cbs = @ \o r.cb]
      [] m.kind = "hexbug"  ->
            LET r == HexbugHandleTimePair(m.st, p)
            IN  [m EXCEPT !.st = r.sm, !.cbs = @ \o r.cb]
      [] m.kind = "ppm"     -> [m EXCEPT !.st = PPMHandleTimePair(m.st, p, t)]

\* the decoder a alone, as an RxDevice's only state machine, given the pair p
FedAlone(a, p, t) ==
    IF a.kind = "ppm" THEN [a EXCEPT !.st = PPMHandleTimePair(a.st, p, t)]
    ELSE LET r == CASE a.kind = "cheapo"  -> CheapoHandleTimePair(a.st, p)
                    [] a.kind = "samsung" -> SamsungHandleTimePair(a.st, p)
                    [] a.kind = "hexbug"  -> HexbugHandleTimePair(a.st, p)
         IN  [kind |-> a.kind, st |-> r.sm, cbs |-> a.cbs \o r.cb]

\* the range loop has run out of members
MultiLoopDone_short(mrsm, i) == i >= Len(mrsm) - 1
MultiLoopDone(mrsm, i) == i >= Len(mrsm)

\* the member the loop calls after i members have been called
MultiNextMember_first(mrsm, i) == 1
MultiNextMember(mrsm, i) == i + 1

\* the decoders that can be registered: fresh ones and ones in use
Members == {NewMember(k) : k \in Decoders} \cup {LateMember(k) : k \in Decoders}

MemberLists == UNION {[1 .. n -> Members] : n \in 0 .. MaxMembers}

InitMulti ==
    /\ stateMachine = "multi"
    /\ cheapo = CheapoNew
    /\ samsung = SamsungNew
    /\ hexbug = HexbugNew
    /\ ppm = PPMNew
    /\ now = TickStep
    /\ pair = <<0, 0>>
    /\ out = <<>>
    /\ fed = <<>>
    /\ npulses = 0
    /\ ncb = 0
    /\ pre = <<>>
    /\ sync = Never
    /\ tx = NoTx
    /\ delivered = <<>>
    /\ \E rsm \in MemberLists :
          multi = [mrsm  |-> rsm,
                   i     |-> 0,
                   pc    |-> "idle",
                   calls |-> <<>>,
                   done  |-> [j \in 1 .. Len(rsm) |-> 0],
                   n     |-> 0,
                   alone |-> rsm,
                   prev  |-> rsm]
    /\ um = NoCall

\* the RxDevice calls the dispatcher's HandleTimePair
MultiCall ==
    /\ multi.pc = "idle"
    /\ multi.n < MaxDispatch
    /\ \E p \in MultiPairs :
        /\ pair' = p
        /\ multi' = [multi EXCEPT
                        !.pc = "loop", !.i = 0, !.calls = <<>>, !.n = @ + 1,
                        !.prev = multi.alone,
                        !.alone = [j \in 1 .. Len(multi.alone) |->
                                      FedAlone(multi.alone[j], p, now)]]
    /\ UNCHANGED <<stateMachine, um, decVars, now, out, fed, npulses, ncb, pre, sync, txVars>>

\* one iteration of the loop: mrsm[i].HandleTimePair(pair)
MultiForward ==
    /\ multi.pc = "loop"
    /\ ~MultiLoopDone(multi.mrsm, multi.i)
    /\ LET j == MultiNextMember(multi.mrsm, multi.i)
       IN  multi' = [multi EXCEPT
                        !.mrsm[j] = MemberHandleTimePair(@, pair, now),
                        !.calls = Append(@, <<j, pair>>),
                        !.done[j] = @ + 1,
                        !.i = @ + 1]
    /\ UNCHANGED <<stateMachine, um, decVars, now, histVars, txVars>>

\* the loop is over: the dispatcher's HandleTimePair returns
MultiReturn ==
    /\ multi.pc = "loop"
    /\ MultiLoopDone(multi.mrsm, multi.i)
    /\ multi' = [multi EXCEPT !.pc = "idle"]
    /\ UNCHANGED <<stateMachine, um, decVars, now, histVars, txVars>>

NextMulti == MultiCall \/ MultiForward \/ MultiReturn

SpecMulti == InitMulti /\ [][NextMulti]_vars

(***************************************************************************)
(* Claims about the decoders, checked under Spec                           *)
(***************************************************************************)
\* the sum of a sequence of bits
RECURSIVE Ones(_)
Ones(s) == IF s = <<>> THEN 0 ELSE Head(s) + Ones(Tail(s))

\* C2: hexbug, from a reset state: the callback is invoked on the 9th bit pulse
\* exactly when an odd number of the 9 pulses were ones (off > 750us), it then
\* carries the 8 data bits in the order fed (LSB first) in bits 0..7, and no
\* callback is invoked in a frame with an even number of ones.
C2_ParityGate ==
    (stateMachine = "hexbug" /\ Called /\ HexbugClass(pair) # "start") =>
        /\ Len(fed) < HexbugWidth => out = <<>> /\ ncb = 0
        /\ Len(fed) = HexbugWidth =>
            /\ (out # <<>>) <=> (Ones(fed) % 2 = 1)
            /\ ncb = Len(out) /\ Len(out) <= 1
            /\ out # <<>> => out[1] % 256 = BitsValue(SubSeq(fed, 1, 8))

\* a frame with an odd number of ones was delivered
C2_Witness ==
    /\ stateMachine = "hexbug"
    /\ fed = <<1, 0, 1, 0, 0, 0, 1, 0, 0>>
    /\ out = <<69>>

\* C3: cheapo: right after a start marker buf and bitcount are 0; the callback is
\* not invoked before the 10th classified pulse, and the 10th invokes it once
\* with the value whose bit i is 1 exactly when the i-th pulse had off > 1ms.
C3_FixedCode ==
    (stateMachine = "cheapo" /\ Called) =>
        /\ CheapoClass(pair) = "start" => cheapo.buf = 0 /\ cheapo.bitcount = 0 /\ out = <<>>
        /\ Len(fed) < CheapoWidth => out = <<>> /\ ncb = 0
        /\ (Len(fed) = CheapoWidth /\ CheapoClass(pair) \in {"one", "zero"}) =>
              out = <<BitsValue(fed)>> /\ ncb = 1

\* ten classified pulses after a start marker, delivered as 0b1010010011
C3_Witness ==
    /\ stateMachine = "cheapo"
    /\ fed = <<1, 1, 0, 0, 1, 0, 0, 1, 0, 1>>
    /\ npulses = 10
    /\ out = <<659>>

\* the time elapsed since the last synchronization marker fed
Elapsed == now - sync[1]

\* C4: ppm: once a marker has been fed, Channel(i) is the stored value of
\* channel i while the time since the last marker does not exceed Timeout and
\* safeChannels[i] once it does, whatever non-marker pulses arrive meanwhile.
C4_Staleness ==
    (stateMachine = "ppm" /\ sync # Never) =>
        \A i \in Channels :
            Channel(ppm, i, now) =
                IF Elapsed > ppm.Timeout THEN ppm.safeChannels[i] ELSE ppm.channels[i]

\* a channel pulse stored after the timeout has passed is hidden by the safe value
C4_Witness ==
    /\ stateMachine = "ppm"
    /\ sync # Never
    /\ Elapsed > ppm.Timeout
    /\ pair = <<1000 * Microsecond, 505 * Microsecond>>
    /\ pre.last = sync[1] /\ pre.currentCh = 0 /\ ppm.currentCh = 1
    /\ ppm.channels[0] = 1510 * Microsecond
    /\ Channel(ppm, 0, now) = 1500 * Microsecond

\* C5: ppm: while no synchronization marker has ever been fed, non-marker
\* pulses leave the channel array and the current-channel index unchanged.
C5_Guard ==
    (stateMachine = "ppm" /\ sync = Never) =>
        ppm.channels = SafeChannelsMid /\ ppm.currentCh = 0

\* a channel pulse was fed before any marker
C5_Witness ==
    /\ stateMachine = "ppm"
    /\ sync = Never
    /\ Called
    /\ pair = <<1000 * Microsecond, 505 * Microsecond>>

\* C7 (as claimed): a duration equal to a threshold takes the below-threshold
\* branch in every decoder: cheapo off = 1ms appends a 0 bit and on = 7ms is no
\* start marker; samsung on = 1ms appends a 0 bit and off = 3ms is no start of
\* frame; hexbug off = 750us appends a 0 bit without toggling parity and
\* off = 1600us is no start marker; ppm on = 6ms is a channel pulse.
C7_CheapoBoundary ==
    (stateMachine = "cheapo" /\ Called) =>
        /\ (pair[2] = Millisecond /\ pair[1] <= 7 * Millisecond) =>
              cheapo.bitcount = pre.bitcount + 1 /\ cheapo.buf = pre.buf
        /\ pair[1] = 7 * Millisecond => cheapo.bitcount >= pre.bitcount /\ cheapo.buf >= pre.buf

C7_SamsungBoundary ==
    (stateMachine = "samsung" /\ Called) =>
        /\ (pair[1] = Millisecond /\ pair[2] <= 3 * Millisecond) =>
              samsung.bitcount = pre.bitcount + 1 /\ samsung.buf = pre.buf
        /\ (pair[2] = 3 * Millisecond /\ pair[1] <= 200 * Millisecond) =>
              samsung.bitcount = pre.bitcount + 1

C7_HexbugBoundary ==
    (stateMachine = "hexbug" /\ Called) =>
        /\ (pair[2] = 750 * Microsecond /\ pre.bitcount < HexbugWidth - 1) =>
              /\ hexbug.bitcount = pre.bitcount + 1
              /\ hexbug.rcvbuf = pre.rcvbuf
              /\ hexbug.parity = pre.parity
        /\ (pair[2] = 750 * Microsecond /\ pre.bitcount = HexbugWidth - 1) =>
              (out # <<>> <=> pre.parity) /\ (out # <<>> => out[1] = pre.rcvbuf)
        /\ (pair[2] = 1600 * Microsecond /\ pre.bitcount < HexbugWidth - 1) =>
              /\ hexbug.bitcount = pre.bitcount + 1
              /\ Bit(hexbug.rcvbuf, pre.bitcount) = 1

C7_PPMBoundary ==
    (stateMachine = "ppm" /\ Called /\ pair[1] = 6 * Millisecond) =>
        /\ ppm.last = pre.last
        /\ (pre.last # ZeroTime /\ pre.currentCh < NumChannels) =>
              /\ ppm.currentCh = pre.currentCh + 1
              /\ ppm.channels[pre.currentCh] = pair[1] + pair[2]

C7_Boundary ==
    C7_CheapoBoundary /\ C7_SamsungBoundary /\ C7_HexbugBoundary /\ C7_PPMBoundary

\* C8 (as claimed): the value delivered by hexbug has bit 8, the parity bit, clear.
C8_ParityExcluded ==
    (stateMachine = "hexbug" /\ out # <<>>) => Bit(out[1], 8) = 0

\* C8 (amended): the value delivered by hexbug is the whole 9-bit accumulator:
\* the 8 data bits in bits 0..7 and the received parity bit in bit 8, which is
\* 1 exactly when the 9th pulse was a one; no higher bit is set.
C8_ParityDelivered ==
    (stateMachine = "hexbug" /\ out # <<>>) =>
        /\ Len(fed) = HexbugWidth
        /\ out[1] = BitsValue(fed)
        /\ Bit(out[1], 8) = fed[9]
        /\ out[1] < Pow2(HexbugWidth)

\* a frame whose parity bit is a one was delivered with bit 8 set
C8_Witness ==
    /\ stateMachine = "hexbug"
    /\ fed = <<1, 1, 0, 0, 0, 0, 0, 0, 1>>
    /\ out = <<259>>

\* C13 (as claimed): in every reachable state of the cheapo, samsung and hexbug
\* decoders the bit counter is at most the frame width (10, 32, 9) and the
\* accumulator has no bit set at or above the width.
C13_CheapoBound ==
    stateMachine = "cheapo" => cheapo.bitcount <= 10 /\ cheapo.buf < Pow2(10)

C13_SamsungBound ==
    stateMachine = "samsung" => samsung.bitcount <= 32 /\ samsung.buf \subseteq 0 .. 31

C13_HexbugBound ==
    stateMachine = "hexbug" => hexbug.bitcount <= 9 /\ hexbug.rcvbuf < Pow2(9)

C13_AccumulatorBound == C13_CheapoBound /\ C13_SamsungBound /\ C13_HexbugBound

\* C23 (as claimed): cheapo: the callback is invoked only by a HandleTimePair
\* call that raises bitcount from 9 to 10, so it is invoked at most once between
\* two consecutive start markers, however many further pulses (pulses with
\* off = 1ms included) are fed.
C23_OnlyOnTenth ==
    (stateMachine = "cheapo" /\ Called /\ out # <<>>) =>
        pre.bitcount = 9 /\ cheapo.bitcount = 10

C23_OncePerFrame ==
    stateMachine = "cheapo" => ncb <= 1

C23_OneCallback == C23_OnlyOnTenth /\ C23_OncePerFrame

\* C14: ppm: at any instant Channel(i) is safeChannels[i] and Channels() is the
\* safeChannels array when IsSafe() is true at that instant, and they are the
\* stored values when IsSafe() is false; a decoder that was never given a
\* synchronization marker reports IsSafe() true.
C14_StalenessQuery ==
    stateMachine = "ppm" =>
        LET safe == IsSafe(ppm, now)
        IN  /\ \A i \in Channels :
                  Channel(ppm, i, now) = IF safe THEN ppm.safeChannels[i] ELSE ppm.channels[i]
            /\ ChannelsOf(ppm, now) = IF safe THEN ppm.safeChannels ELSE ppm.channels
            /\ sync = Never => safe

\* never synchronized, a pulse fed, another safe array installed: the accessors
\* give the safe array, which differs from the stored values
C14_Witness ==
    /\ stateMachine = "ppm"
    /\ sync = Never
    /\ Called
    /\ ppm.safeChannels = SafeChannelsBottom
    /\ IsSafe(ppm, now)
    /\ ChannelsOf(ppm, now) = SafeChannelsBottom
    /\ ChannelsOf(ppm, now) # ppm.channels

\* C15: samsung, from a reset state: each bit pulse (neither ignored nor in the
\* start-of-frame band) contributes a 1 exactly when its on > 1ms; no callback
\* is invoked on pulses 1..31, and the 32nd invokes it exactly once with the
\* Frame whose Addr is pulses 0..15 and whose Cmd is pulses 16..31, LSB first.
C15_SamsungDecode ==
    (stateMachine = "samsung" /\ Called) =>
        /\ SamsungClass(pair) \notin {"one", "zero"} => out = <<>>
        /\ Len(fed) < 32 => out = <<>> /\ ncb = 0
        /\ Len(fed) <= 32 =>
              /\ samsung.bitcount = Len(fed)
              /\ samsung.buf = {i \in 0 .. 31 : i < Len(fed) /\ fed[i + 1] = 1}
        /\ (Len(fed) = 32 /\ SamsungClass(pair) \in {"one", "zero"}) =>
              /\ out = <<[Addr |-> BitsValue(SubSeq(fed, 1, 16)),
                          Cmd  |-> BitsValue(SubSeq(fed, 17, 32))]>>
              /\ ncb = 1

\* 32 bit pulses from a reset state, pulses 0, 15, 16 and 31 long: Addr and Cmd 0x8001
C15_Witness ==
    /\ stateMachine = "samsung"
    /\ Len(fed) = 32
    /\ fed[1] = 1 /\ fed[16] = 1 /\ fed[17] = 1 /\ fed[32] = 1
    /\ pair = <<1687 * Microsecond, 562 * Microsecond>>
    /\ out = <<[Addr |-> 32769, Cmd |-> 32769]>>

\* C16 (as claimed): samsung: a pair whose off exceeds 200ms is ignored
\* entirely, whatever its on: buf and bitcount are unchanged and no callback is
\* invoked.
C16_RepeatBandOff ==
    (stateMachine = "samsung" /\ Called /\ pair[2] > 200 * Millisecond) =>
        samsung = pre /\ out = <<>>

\* C16 (amended): samsung: a pair whose on exceeds 200ms is ignored entirely,
\* whatever its off: buf and bitcount are unchanged and no callback is invoked.
\* A pair whose off exceeds 200ms while its on does not is a pair of the
\* start-of-frame band: it invokes no callback, resets buf and bitcount when
\* its on > 3ms and leaves them unchanged otherwise.
C16_RepeatBandOn ==
    (stateMachine = "samsung" /\ Called) =>
        /\ pair[1] > 200 * Millisecond => samsung = pre /\ out = <<>>
        /\ (pair[2] > 200 * Millisecond /\ pair[1] <= 200 * Millisecond) =>
              /\ out = <<>>
              /\ samsung = IF pair[1] > 3 * Millisecond
                           THEN [buf |-> {}, bitcount |-> 0] ELSE pre

\* a pair with on = 250ms and off in the start band left a partial frame as it was
C16_Witness ==
    /\ stateMachine = "samsung"
    /\ pair = <<250 * Millisecond, 4500 * Microsecond>>
    /\ pre.bitcount = 3 /\ pre.buf = {0}
    /\ samsung = pre
    /\ out = <<>>

\* C17 (as claimed): samsung: a pair with off > 3ms never appends a bit and
\* never invokes the callback; it resets buf and bitcount to 0 exactly when its
\* on is also > 3ms and otherwise leaves them unchanged.
C17_StartBandAnyOn ==
    (stateMachine = "samsung" /\ Called /\ pair[2] > 3 * Millisecond) =>
        /\ out = <<>>
        /\ samsung = IF pair[1] > 3 * Millisecond
                     THEN [buf |-> {}, bitcount |-> 0] ELSE pre

\* C17 (amended): samsung: a pair with off > 3ms never appends a bit and never
\* invokes the callback; it resets buf and bitcount to 0 exactly when its on is
\* > 3ms and not > 200ms, and otherwise (on <= 3ms, or on > 200ms, the ignored
\* band) leaves them unchanged.
C17_StartBand ==
    (stateMachine = "samsung" /\ Called /\ pair[2] > 3 * Millisecond) =>
        /\ out = <<>>
        /\ samsung.bitcount <= pre.bitcount
        /\ samsung = IF pair[1] > 3 * Millisecond /\ pair[1] <= 200 * Millisecond
                     THEN [buf |-> {}, bitcount |-> 0] ELSE pre

\* a start of frame arrived in the middle of a frame and reset it
C17_Witness ==
    /\ stateMachine = "samsung"
    /\ pair = <<4500 * Microsecond, 4500 * Microsecond>>
    /\ pre.bitcount = 3 /\ pre.buf = {0}
    /\ samsung = [buf |-> {}, bitcount |-> 0]
    /\ out = <<>>

\* C18: hexbug: after the call that appends the 9th bit, rcvbuf, bitcount and
\* parity are 0, 0 and false whether or not the callback was invoked; a start
\* marker (off > 1.6ms) leaves the same state from any state; so after every
\* call bitcount is in 0..8 and parity tells whether the number of set bits of
\* rcvbuf is odd.
C18_HexbugReset ==
    (stateMachine = "hexbug" /\ Called) =>
        /\ (pair[2] <= 1600 * Microsecond /\ pre.bitcount = 8) =>
              hexbug = [rcvbuf |-> 0, bitcount |-> 0, parity |-> FALSE]
        /\ pair[2] > 1600 * Microsecond =>
              hexbug = [rcvbuf |-> 0, bitcount |-> 0, parity |-> FALSE] /\ out = <<>>
        /\ hexbug.bitcount \in 0 .. 8
        /\ hexbug.parity <=> (Cardinality({i \in 0 .. 15 : Bit(hexbug.rcvbuf, i) = 1}) % 2 = 1)

\* the 9th bit of a frame with an even number of ones: no callback, state reset
C18_Witness ==
    /\ stateMachine = "hexbug"
    /\ fed = <<1, 0, 0, 0, 0, 1, 0, 0, 0>>
    /\ pre = [rcvbuf |-> 33, bitcount |-> 8, parity |-> FALSE]
    /\ out = <<>>
    /\ hexbug = [rcvbuf |-> 0, bitcount |-> 0, parity |-> FALSE]

\* C19: ppm: in every reachable state currentCh is in 0..16 and the channel
\* array has its 16 entries; a non-marker pulse received while currentCh is 16
\* changes neither the channel array, nor currentCh, nor last.
C19_Capacity ==
    stateMachine = "ppm" =>
        /\ ppm.currentCh \in 0 .. 16
        /\ DOMAIN ppm.channels = 0 .. 15
        /\ (Called /\ pair[1] <= 6 * Millisecond /\ pre.currentCh = 16) =>
              /\ ppm.channels = pre.channels
              /\ ppm.currentCh = 16
              /\ ppm.last = pre.last

\* a 17th channel pulse after a marker was dropped
C19_Witness ==
    /\ stateMachine = "ppm"
    /\ sync # Never
    /\ pre.currentCh = 16
    /\ pair = <<1000 * Microsecond, 505 * Microsecond>>
    /\ ppm.currentCh = 16
    /\ ppm.channels = pre.channels

\* C20: ppm: a HandleTimePair call with on > 6ms sets last to the current time
\* and currentCh to 0, and leaves every stored channel value, the safeChannels
\* array and Timeout unchanged.
C20_Marker ==
    [][(stateMachine = "ppm" /\ FeedPPM /\ pair'[1] > 6 * Millisecond) =>
          /\ ppm'.last = now
          /\ ppm'.currentCh = 0
          /\ ppm'.channels = ppm.channels
          /\ ppm'.safeChannels = ppm.safeChannels
          /\ ppm'.Timeout = ppm.Timeout]_vars

\* a second marker arrived in the middle of a frame that had stored 1510us
C20_Witness ==
    /\ stateMachine = "ppm"
    /\ pair = <<7 * Millisecond, 500 * Microsecond>>
    /\ pre.last # ZeroTime /\ pre.last < now
    /\ pre.currentCh = 2
    /\ pre.channels[0] = 1510 * Microsecond
    /\ ppm.last = now
    /\ ppm.currentCh = 0
    /\ ppm.channels = pre.channels

\* C21: ppm: once a marker has been fed and while currentCh = k is below 16, a
\* HandleTimePair call with a non-marker pair (on, off) stores on + off rounded
\* to the nearest multiple of 10us in channel k, leaves every other channel,
\* last, safeChannels and Timeout unchanged and increments currentCh by exactly
\* 1; the marker having set currentCh to 0, the n-th non-marker pulse after a
\* marker determines channel n.
C21_ChannelStore ==
    [][(/\ stateMachine = "ppm"
        /\ FeedPPM
        /\ pair'[1] <= 6 * Millisecond
        /\ sync # Never
        /\ ppm.currentCh < 16) =>
          LET k == ppm.currentCh
              v == 10 * ((pair'[1] + pair'[2] + 5) \div 10)
          IN  /\ ppm'.channels[k] = v
              /\ \A i \in (0 .. 15) \ {k} : ppm'.channels[i] = ppm.channels[i]
              /\ ppm'.last = ppm.last
              /\ ppm'.currentCh = k + 1
              /\ ppm'.safeChannels = ppm.safeChannels
              /\ ppm'.Timeout = ppm.Timeout]_vars

\* the 16th pulse after a marker, 1505us long, was stored as 1510us in channel 15
C21_Witness ==
    /\ stateMachine = "ppm"
    /\ sync # Never
    /\ pair = <<1000 * Microsecond, 505 * Microsecond>>
    /\ pre.currentCh = 15
    /\ pre.channels[15] = 1500 * Microsecond
    /\ ppm.currentCh = 16
    /\ ppm.channels[15] = 1510 * Microsecond
    /\ ppm.last = pre.last

(***************************************************************************)
(* Claims about the marshallers, checked under SpecTx                      *)
(***************************************************************************)
\* every pair of the frame has been handed over
AllSent == tx.sent = Len(tx.pairs)

\* C1 (as claimed): the 34 pairs of samsung MarshalFrame, fed in order to a fresh
\* decoder, make it invoke the callback with the frame's own Addr and Cmd.
C1_RoundTrip ==
    (stateMachine = "samsung" /\ AllSent) =>
        \E i \in 1 .. Len(delivered) :
            delivered[i].Addr = tx.frame.Addr /\ delivered[i].Cmd = tx.frame.Cmd

\* C9 (as claimed): the pairs of hexbug Cmd.MarshalFrame, fed in order to the
\* decoder, make it invoke the callback exactly once, with the low 8 bits of
\* the command.
C9_RoundTrip ==
    (stateMachine = "hexbug" /\ AllSent) =>
        Len(delivered) = 1 /\ delivered[1] % 256 = tx.frame % 256

\* bit i of the 32-bit word Cmd<<16 | Addr
WordBit(f, i) == IF i < 16 THEN Bit(f.Addr, i) ELSE Bit(f.Cmd, i - 16)

\* C10: samsung MarshalFrame returns 34 pairs: the start pair, then for
\* i = 0..31 the one-pair if bit i of Cmd<<16 | Addr is 1 and the zero-pair
\* otherwise, then the zero-pair.
C10_MarshalShape ==
    stateMachine = "samsung" =>
        /\ Len(tx.pairs) = 34
        /\ tx.pairs[1] = <<6000, 3000>>
        /\ \A i \in 0 .. 31 :
              tx.pairs[i + 2] = IF WordBit(tx.frame, i) = 1 THEN <<562, 562>> ELSE <<562, 1687>>
        /\ tx.pairs[34] = <<562, 1687>>

\* the frame (0x1234, 0x5678) was marshalled
C10_Witness ==
    /\ stateMachine = "samsung"
    /\ tx.frame = [Addr |-> 4660, Cmd |-> 22136]
    /\ tx.pairs[4] = OnePair
    /\ tx.pairs[2 + 16 + 3] = OnePair
    /\ tx.pairs[2 + 16] = ZeroPair

\* C11: hexbug Cmd.MarshalFrame returns 10 pairs for every command: the start
\* pair, then for i = 0..7 the one-pair if bit i of the command is 1 and the
\* zero-pair otherwise, then a one-pair or a zero-pair such that the number of
\* one-pairs among the 9 bit pairs is odd.
C11_CmdMarshalShape ==
    stateMachine = "hexbug" =>
        /\ Len(tx.pairs) = 10
        /\ tx.pairs[1] = <<1750, 350>>
        /\ \A i \in 0 .. 7 :
              tx.pairs[i + 2] = IF Bit(tx.frame, i) = 1 THEN <<1000, 350>> ELSE <<350, 350>>
        /\ tx.pairs[10] \in {<<1000, 350>>, <<350, 350>>}
        /\ Cardinality({k \in 2 .. 10 : tx.pairs[k] = <<1000, 350>>}) % 2 = 1

\* the command 0xA5, four ones, was marshalled with a one as its parity pair
C11_Witness ==
    /\ stateMachine = "hexbug"
    /\ tx.frame = 165
    /\ tx.pairs[2] = hbOne /\ tx.pairs[3] = hbZero /\ tx.pairs[9] = hbOne
    /\ tx.pairs[10] = hbOne

(***************************************************************************)
(* Claims about UnmarshalFrame, checked under SpecUnmarshal                *)
(***************************************************************************)
\* the value of bits lo .. lo+15 of a raw word
Half(buf, lo) == BitsValue([i \in 1 .. 16 |-> IF (lo + i - 1) \in buf THEN 1 ELSE 0])

\* C12: UnmarshalFrame on a nil frame returns ErrFrameAlloc, an error distinct
\* from nil, and writes nothing; on an allocated frame it returns nil and sets
\* Addr to the low 16 bits and Cmd to the high 16 bits of buf.
C12_UnmarshalError ==
    um.called =>
        IF um.dst = <<>>
        THEN /\ um.err = "tried to unmarshal to unallocated frame"
             /\ um.err # NilError
             /\ um.f = <<>>
        ELSE /\ um.err = NilError
             /\ um.f = <<[Addr |-> Half(um.buf, 0), Cmd |-> Half(um.buf, 16)]>>

\* UnmarshalFrame was called on a nil frame and returned the error
C12_Witness ==
    /\ um.called
    /\ um.dst = NilFrame
    /\ um.buf = FrameWord([Addr |-> 4660, Cmd |-> 22136])
    /\ um.err = ErrFrameAlloc

(***************************************************************************)
(* Claims about the dispatcher, checked under SpecMulti                    *)
(***************************************************************************)
\* C6: one call of the dispatcher's HandleTimePair calls every member exactly
\* once with that pair, in list order, and returns only after the last member;
\* so every member has processed pair k before any member is given pair k+1.
C6_FanOut ==
    stateMachine = "multi" =>
        LET n == Len(multi.mrsm)
            upto == IF multi.pc = "idle" /\ multi.n > 0 THEN n ELSE multi.i
        IN  /\ multi.pc = "loop" => multi.i <= n
            /\ multi.n > 0 => multi.calls = [j \in 1 .. upto |-> <<j, pair>>]
            /\ \A j \in 1 .. n :
                  multi.done[j] = IF multi.pc = "idle" \/ j <= multi.i
                                  THEN multi.n ELSE multi.n - 1

\* the dispatcher returned from its second call, made with two members
C6_Witness ==
    /\ stateMachine = "multi"
    /\ multi.pc = "idle"
    /\ multi.n = 2
    /\ Len(multi.mrsm) = 2
    /\ multi.mrsm[1].kind = "cheapo" /\ multi.mrsm[2].kind = "hexbug"
    /\ multi.calls = <<<<1, pair>>, <<2, pair>>>>
    /\ multi.done = <<2, 2>>

\* C22: for any list of decoder instances and any sequence of pairs fed through
\* the dispatcher, every member's state after every pair and the sequence of
\* its callback invocations are those of the same decoder fed the same pairs
\* alone; while a pair is being dispatched, the members not yet called are as
\* they were before it, so no member's call changes another member's state.
C22_Isolation ==
    stateMachine = "multi" =>
        /\ Len(multi.alone) = Len(multi.mrsm)
        /\ \A j \in 1 .. Len(multi.mrsm) :
              LET ref == IF multi.pc = "idle" \/ j <= multi.i
                         THEN multi.alone[j] ELSE multi.prev[j]
              IN  /\ multi.mrsm[j].st = ref.st
                  /\ multi.mrsm[j].cbs = ref.cbs

\* a cheapo and a hexbug decoder, each one bit short of a frame, both completed
\* their frame on the same pair and each invoked its own callback
C22_Witness ==
    /\ stateMachine = "multi"
    /\ multi.pc = "idle"
    /\ multi.n = 1
    /\ pair = <<560 * Microsecond, 1500 * Microsecond>>
    /\ Len(multi.mrsm) = 2
    /\ multi.mrsm[1] = [kind |-> "cheapo", st |-> [buf |-> 517, bitcount |-> 10], cbs |-> <<517>>]
    /\ multi.mrsm[2].kind = "hexbug"
    /\ multi.mrsm[2].cbs = <<261>>
    /\ multi.mrsm[2].st = [rcvbuf |-> 0, bitcount |-> 0, parity |-> FALSE]

====
